---- MODULE Spec2Model ----
(***************************************************************************)
(* Process supervisor and status reconciler of the Proton Drive WebDAV     *)
(* bridge desktop shell (src-tauri/src/sidecar.rs).                        *)
(*                                                                         *)
(* The tauri commands are async functions that the runtime may run         *)
(* concurrently.  Each caller slot of the model runs one command at a      *)
(* time; a command advances from one await point or lock acquisition to    *)
(* the next in one step.                                                   *)
(***************************************************************************)
EXTENDS Integers, Sequences, FiniteSets, TLC

\* ------------------------------------------------------------------ bounds
\* Number of commands that may be in flight at once.
NumCallers == 2
\* Number of worker processes the supervisor may spawn in one behaviour.
MaxSpawns == 2
\* Longest worker stdout (in characters) the status reconciler is fed.
MaxOut == 4
\* Number of events the workers put into the channels of their output
\* tasks in one behaviour, the terminations apart.
MaxLines == 2

Callers == 1..NumCallers

\* ------------------------------------------------------------ Option<T>
None == << >>
Some(x) == << x >>
IsSome(o) == o # None
Unwrap(o) == o[1]

\* ---------------------------------------------------------- Result<T, E>
NoRes == [kind |-> "none"]
Ok(v) == [kind |-> "Ok", val |-> v]
Err(e, d) == [kind |-> "Err", err |-> e, detail |-> d]
Unit == "()"

\* ------------------------------------------------------------ worker text
\* Worker output is a sequence of tokens.  "A" and "B" each stand for the
\* text of one complete, well-formed status document ({"server":...}), so
\* each begins with an opening brace; "{" is an opening brace that begins
\* no well-formed document; "t" is any other visible character.  "C" is a
\* third document, which only the mount commands are given.
Chars == {"{", "\n", " ", "t", "A", "B"}
Whitespace == {" ", "\n"}
OpensBrace == {"{", "A", "B", "C"}

\* StatusResponse with its nested structs flattened.
StatusOf(running, p, url, loggedIn, user, port) ==
    [ running |-> running, pid |-> p, url |-> url,
      loggedIn |-> loggedIn, username |-> user,
      host |-> "localhost", port |-> port, https |-> FALSE,
      requireAuth |-> FALSE, webdavUsername |-> None, passwordHash |-> None,
      remotePath |-> "", cache |-> None, debug |-> Some(FALSE),
      autoStart |-> None, logFile |-> "" ]

default_status_response ==
    StatusOf(FALSE, None, None, FALSE, None, 8080)

\* The status documents the worker may print: "A" has pid null, "B" a pid,
\* "C" is the document of a worker that is not serving.
Documents ==
    [ A |-> StatusOf(TRUE, None, Some("http://localhost:9000"), TRUE, Some("u"), 9000),
      B |-> StatusOf(TRUE, Some(7), Some("http://localhost:9000"), FALSE, None, 9000),
      C |-> StatusOf(FALSE, None, None, TRUE, Some("u"), 9000) ]

\* ------------------------------------------------------- text operators
\* str::find(ch): the index of the first token satisfying the pattern.
FindFirst(s, set) ==
    IF \E i \in 1..Len(s) : s[i] \in set
    THEN Some(CHOOSE i \in 1..Len(s) :
                /\ s[i] \in set
                /\ \A j \in 1..(i - 1) : s[j] \notin set)
    ELSE None

\* str::lines(): the segments between line breaks, without a final empty one.
RECURSIVE Lines(_)
Lines(s) ==
    IF s = << >> THEN << >>
    ELSE LET nl == FindFirst(s, {"\n"})
         IN  IF nl = None THEN << s >>
             ELSE << SubSeq(s, 1, Unwrap(nl) - 1) >>
                    \o Lines(SubSeq(s, Unwrap(nl) + 1, Len(s)))

\* str::trim_start()
RECURSIVE TrimStart(_)
TrimStart(s) ==
    IF s # << >> /\ Head(s) \in Whitespace THEN TrimStart(Tail(s)) ELSE s

\* str::trim_end()
RECURSIVE TrimEnd(_)
TrimEnd(s) ==
    IF s # << >> /\ s[Len(s)] \in Whitespace
    THEN TrimEnd(SubSeq(s, 1, Len(s) - 1)) ELSE s

\* line.trim_start().starts_with('{')
StartsWithBrace(line) ==
    LET t == TrimStart(line) IN t # << >> /\ Head(t) \in OpensBrace

\* Variant of ExtractJson: takes the first brace wherever it is, without
\* looking for a line that starts with one.
ExtractJsonAnywhere(stdout_str) ==
    LET start_idx == FindFirst(stdout_str, OpensBrace)
    IN  IF start_idx = None THEN None
        ELSE Some(SubSeq(stdout_str, Unwrap(start_idx), Len(stdout_str)))

\* get_status, extraction of json_str from stdout_str.
ExtractJson(stdout_str) ==
    LET ls == Lines(stdout_str)
    IN  IF \E k \in 1..Len(ls) : StartsWithBrace(ls[k])
        THEN LET start_idx == FindFirst(stdout_str, OpensBrace)
             IN  IF start_idx = None THEN None
                 ELSE Some(SubSeq(stdout_str, Unwrap(start_idx), Len(stdout_str)))
        ELSE None

\* serde_json::from_str::<StatusResponse>: surrounding whitespace is skipped,
\* and the rest must be exactly one well-formed status document.
ParseStatus(text) ==
    LET t == TrimEnd(TrimStart(text))
    IN  IF Len(t) = 1 /\ t[1] \in DOMAIN Documents
        THEN Some(Documents[t[1]])
        ELSE None

\* Every worker stdout of at most MaxOut tokens.
Outputs == UNION { [1..n -> Chars] : n \in 0..MaxOut }

\* ------------------------------------------------- process invocations
\* What one invocation of the worker executable came to.
NoOut == [kind |-> "none"]
Unavailable == [kind |-> "unavailable"]
LaunchFailed == [kind |-> "launch_failed"]
TimedOut == [kind |-> "timeout"]
Exited(code, stdout, stderr) ==
    [kind |-> "exited", code |-> code, stdout |-> stdout, stderr |-> stderr]
Success(o) == o.kind = "exited" /\ o.code = 0

\* Text of an operating-system error (e.to_string()).
OsError == << "o", "s" >>
Stderrs == { << >>, << "t" >> }

\* `stop`, `auth --logout`: exit code and stderr; stdout is not read.
CommandOutcomes ==
    {Unavailable, LaunchFailed, Exited(0, << >>, << >>)}
        \cup { Exited(1, << >>, e) : e \in Stderrs }

\* `status --json` under the 5 second timeout, for stdout drawn from outs.
StatusOutcomes(outs) ==
    {Unavailable, LaunchFailed, TimedOut}
        \cup { Exited(0, so, se) : so \in outs, se \in {<< >>, << "A" >>} }
        \cup { Exited(1, so, << "t" >>) : so \in {<< >>, << "A" >>} }

\* A few of them: a timeout, a failed exit, text that does not parse, a
\* document without a pid after a preamble, and a document with a pid.
SampleOutcomes ==
    { TimedOut, Exited(1, << "A" >>, << "t" >>),
      Exited(0, << "{", "A" >>, << >>),
      Exited(0, << "t", "\n", "A" >>, << >>), Exited(0, << "B" >>, << >>) }

Ports == {9000}

\* ------------------------------------------------------------ the state
VARIABLES
    pid,        \* SidecarState.pid: Option<u32>
    lock,       \* the caller holding the Mutex around pid, if any
    nextPid,    \* the process id the next spawned worker gets
    alive,      \* the spawned workers that are running
    workers,    \* spawned pid -> [stream]: the state of its output task
    calls,      \* caller -> the command it runs and where that command is
    ret,        \* what the last step returned to the frontend, if it returned
    mthreads,   \* the mount threads spawned by mount_drive, oldest first
    loc,        \* the last application of find_mount_by_uri
    streams,    \* spawned pid -> the channel and the events of its output task
    ser         \* the last CommandError that was serialized

vars == << pid, lock, nextPid, alive, workers, calls, ret, mthreads, loc,
           streams, ser >>

mountVars == << mthreads, loc, ser >>

\* The output task of a worker before the worker has written anything: rx
\* is the channel of CommandEvents, got what the task has received from it,
\* emitted the events the task has emitted to the frontend.
NewStream == [ rx |-> << >>, got |-> << >>, emitted |-> << >> ]

NoSer == [kind |-> "none"]

\* The CommandEvents of a worker's channel: a line of stdout, a line of
\* stderr, an event of another kind, the termination.
LineTexts == {"a", "b"}

CommandEvents ==
    [kind : {"Stdout", "Stderr"}, line : LineTexts]
        \cup {[kind |-> "Error", line |-> "a"]}

TerminatedEvent == [kind |-> "Terminated", line |-> ""]

\* The number of events that the workers 1..n have written.
RECURSIVE Written(_, _)
Written(chans, n) ==
    IF n = 0 THEN 0
    ELSE Len(SelectSeq(chans[n].rx \o chans[n].got,
                       LAMBDA e : e.kind # "Terminated"))
            + Written(chans, n - 1)

\* The workers of ws have exited: the shell plugin sends Terminated as the
\* last event of their channels.
Terminate(chans, ws) ==
    [w \in DOMAIN chans |->
        IF w \in ws THEN [chans[w] EXCEPT !.rx = Append(@, TerminatedEvent)]
        ELSE chans[w]]

\* What a mount command has seen and done so far: nothing.
NoObs == [kind |-> "none"]

NoLoc == [kind |-> "none"]

Idle ==
    [ op |-> "none", pc |-> "idle", port |-> None, out |-> NoOut,
      status |-> None, ev |-> << >>, obs |-> NoObs, upd |-> << >> ]

NoRet == [op |-> "none"]

Init ==
    /\ pid = None
    /\ lock = None
    /\ nextPid = 1
    /\ alive = {}
    /\ workers = << >>
    /\ calls = [c \in Callers |-> Idle]
    /\ ret = NoRet
    /\ mthreads = << >>
    /\ loc = NoLoc
    /\ streams = [w \in 1..MaxSpawns |-> NewStream]
    /\ ser = NoSer

\* Return r to the frontend: the command is over, its caller is free again.
\* The record keeps the outcome o of the command's last worker invocation
\* and, for get_status, the json_str it took from that output; for the mount
\* commands it keeps the mount:status events they emitted, in order, and
\* what they saw.
FinishWith(c, o, r, ev, obs) ==
    /\ calls' = [calls EXCEPT ![c] = Idle]
    /\ ret' = [ op |-> calls[c].op, out |-> o, res |-> r,
                json |-> IF calls[c].op = "get_status" /\ Success(o)
                         THEN ExtractJson(o.stdout) ELSE None,
                ev |-> ev, obs |-> obs, upd |-> calls[c].upd ]

Finish(c, o, r) == FinishWith(c, o, r, calls[c].ev, calls[c].obs)

\* A command moves on to pc without returning.
Goto(c, pcNew) ==
    /\ calls' = [calls EXCEPT ![c].pc = pcNew]
    /\ ret' = NoRet

\* Variant of EmitLoading: the event is left out.
EmitLoadingNothing(pcNew) == << >>

\* The status:update events a command has emitted when it arrives at pcNew
\* from its invocation: a command that begins with get_status has emitted
\* the default status, app.emit("status:update", default_status_response()).
EmitLoading(pcNew) ==
    IF pcNew = "gs_run" THEN << default_status_response >> ELSE << >>

\* A command is invoked.
Invoke(c, op, pcNew, port) ==
    /\ calls[c].pc = "idle"
    /\ calls' = [calls EXCEPT ![c] =
                    [Idle EXCEPT !.op = op, !.pc = pcNew, !.port = port,
                                 !.upd = EmitLoading(pcNew)]]
    /\ ret' = NoRet

\* --------------------------------------------------------- start_sidecar
CallStart(c, port) ==
    /\ Invoke(c, "start_sidecar", "start_lock", port)
    /\ UNCHANGED << pid, lock, nextPid, alive, workers, mountVars, streams >>

\* Variant of AlreadyRunning: the check for a tracked pid is missing.
AlreadyRunningNever(tracked) == FALSE

\* lock.is_some()
AlreadyRunning(tracked) == IsSome(tracked)

\* Variant of StartResult: start_sidecar returns another pid than the one
\* it was given.
StartResultOtherPid(c, r) ==
    CASE r.kind # "Ok" -> r
      [] calls[c].op = "set_network_port" -> Ok(Unit)
      [] OTHER -> Ok(r.val + 1)

\* What the command that runs start_sidecar returns for start's result r:
\* set_network_port keeps an error and drops the pid.
StartResult(c, r) ==
    IF calls[c].op = "set_network_port" /\ r.kind = "Ok" THEN Ok(Unit) ELSE r

\* Variant of StartLock: the guard is dropped after the check, and the
\* start goes on without the lock.
StartLockDropped(c) ==
    /\ calls[c].pc = "start_lock"
    /\ lock = None
    /\ IF AlreadyRunning(pid)
       THEN Finish(c, NoOut, StartResult(c, Err("SidecarAlreadyRunning", << >>)))
       ELSE Goto(c, "start_spawn")
    /\ UNCHANGED << pid, lock, nextPid, alive, workers, mountVars, streams >>

\* state.pid.lock(), then the check for a tracked pid.  The guard stays in
\* scope, so a start that goes on goes on holding the lock.
StartLock(c) ==
    /\ calls[c].pc = "start_lock"
    /\ lock = None
    /\ IF AlreadyRunning(pid)
       THEN /\ Finish(c, NoOut, StartResult(c, Err("SidecarAlreadyRunning", << >>)))
            /\ UNCHANGED lock
       ELSE /\ Goto(c, "start_spawn")
            /\ lock' = Some(c)
    /\ UNCHANGED << pid, nextPid, alive, workers, mountVars, streams >>

\* sidecar(..).args(..).spawn(), *lock = Some(pid), the output task, Ok(pid);
\* the guard is dropped on every way out.
StartSpawn(c) ==
    /\ calls[c].pc = "start_spawn"
    /\ lock = Some(c)
    /\ \/ /\ \E o \in {Unavailable, LaunchFailed} :
                Finish(c, o, StartResult(c, Err("SidecarSpawnFailed", OsError)))
          /\ UNCHANGED << pid, nextPid, alive, workers, mountVars, streams >>
       \/ /\ nextPid <= MaxSpawns
          /\ pid' = Some(nextPid)
          /\ alive' = alive \cup {nextPid}
          /\ workers' = Append(workers, [stream |-> "running"])
          /\ streams' = [streams EXCEPT ![nextPid] = NewStream]
          /\ nextPid' = nextPid + 1
          /\ Finish(c, NoOut, StartResult(c, Ok(nextPid)))
          /\ UNCHANGED mountVars
    /\ lock' = None

\* ----------------------------------------------------------- the worker
\* The worker exits by itself (a crash, a fatal error, a signal).
WorkerExit(w) ==
    /\ w \in alive
    /\ alive' = alive \ {w}
    /\ streams' = Terminate(streams, {w})
    /\ ret' = NoRet
    /\ UNCHANGED << pid, lock, nextPid, workers, calls, mountVars >>

\* The worker writes a line to its stdout or stderr, or the shell plugin
\* reports an error of the pipe: one more CommandEvent in the channel.
WorkerWrites(w, e) ==
    /\ w \in alive
    /\ Written(streams, MaxSpawns) < MaxLines
    /\ streams' = [streams EXCEPT ![w].rx = Append(@, e)]
    /\ ret' = NoRet
    /\ UNCHANGED << pid, lock, nextPid, alive, workers, calls, mountVars >>

\* Variant of LogLevel: every line is logged at level info.
LogLevelInfo(kind) == "info"

\* The level of the sidecar:log event of a line: info for Stdout, error for
\* Stderr.
LogLevel(kind) == IF kind = "Stdout" THEN "info" ELSE "error"

\* The arms of the output task's match for an event that is not Terminated:
\* what the task has emitted after the event.
EmitLine(emitted, e) ==
    IF e.kind \in {"Stdout", "Stderr"}
    THEN Append(emitted, [event |-> "sidecar:log", level |-> LogLevel(e.kind),
                          message |-> e.line])
    ELSE emitted

\* rx.recv() of the output task of worker w yields a line or an event of
\* another kind: the task re-emits the line and goes on receiving.
StreamRecv(w) ==
    /\ w \in DOMAIN workers
    /\ workers[w].stream = "running"
    /\ streams[w].rx # << >>
    /\ Head(streams[w].rx).kind # "Terminated"
    /\ streams' = [streams EXCEPT
                      ![w].rx = Tail(@),
                      ![w].got = Append(@, Head(streams[w].rx)),
                      ![w].emitted = EmitLine(@, Head(streams[w].rx))]
    /\ ret' = NoRet
    /\ UNCHANGED << pid, lock, nextPid, alive, workers, calls, mountVars >>

\* The output task of worker w receives CommandEvent::Terminated, emits
\* sidecar:terminated and ends.
StreamTerminated(w) ==
    /\ w \in DOMAIN workers
    /\ w \notin alive
    /\ workers[w].stream = "running"
    /\ streams[w].rx # << >>
    /\ Head(streams[w].rx).kind = "Terminated"
    /\ workers' = [workers EXCEPT ![w].stream = "ended"]
    /\ streams' = [streams EXCEPT
                      ![w].rx = Tail(@),
                      ![w].got = Append(@, Head(streams[w].rx)),
                      ![w].emitted = Append(@, [event |-> "sidecar:terminated"])]
    /\ ret' = NoRet
    /\ UNCHANGED << pid, lock, nextPid, alive, calls, mountVars >>

\* The worker's `stop` subcommand exiting 0: the running instance is gone.
WorkerStopEffect(running) == {}

\* ---------------------------------------------------------- stop_sidecar
\* Variant of CallStop: takes the lock before it awaits the `stop` command.
CallStopLocked(c) ==
    /\ Invoke(c, "stop_sidecar", "stop_run", None)
    /\ lock = None
    /\ lock' = Some(c)
    /\ UNCHANGED << pid, nextPid, alive, workers, mountVars, streams >>

CallStop(c) ==
    /\ Invoke(c, "stop_sidecar", "stop_run", None)
    /\ UNCHANGED << pid, lock, nextPid, alive, workers, mountVars, streams >>

\* Variant of StopFailure: the stderr text is left out of the error.
StopFailureNoStderr(o) ==
    CASE o.kind = "unavailable" -> Err("SidecarSpawnFailed", OsError)
      [] o.kind = "launch_failed" -> Err("IoError", OsError)
      [] OTHER -> Err("SidecarCommandFailed", << >>)

\* The error stop_sidecar returns when `stop` did not exit with success.
StopFailure(o) ==
    CASE o.kind = "unavailable" -> Err("SidecarSpawnFailed", OsError)
      [] o.kind = "launch_failed" -> Err("IoError", OsError)
      [] OTHER -> Err("SidecarCommandFailed", o.stderr)

\* Variant of AfterStop: every command returns the result of its stop step.
AfterStopPropagates(c, o, r) ==
    IF r.kind = "Err" \/ calls[c].op = "stop_sidecar"
    THEN Finish(c, o, r)
    ELSE /\ calls' = [calls EXCEPT ![c].pc =
                IF calls[c].op = "set_network_port" THEN "start_lock"
                ELSE "logout_run"]
         /\ ret' = NoRet

\* stop_sidecar has returned r: stop_sidecar itself returns it, while
\* set_network_port and logout drop it and go on.
AfterStop(c, o, r) ==
    CASE calls[c].op = "stop_sidecar" -> Finish(c, o, r)
      [] calls[c].op = "set_network_port" ->
            /\ calls' = [calls EXCEPT ![c].pc = "start_lock"]
            /\ ret' = NoRet
      [] OTHER ->
            /\ calls' = [calls EXCEPT ![c].pc = "logout_run"]
            /\ ret' = NoRet

\* .output().await of `stop` completes.
StopExit(c) ==
    /\ calls[c].pc = "stop_run"
    /\ \E o \in CommandOutcomes :
          IF Success(o)
          THEN /\ alive' = WorkerStopEffect(alive)
               /\ streams' = Terminate(streams, alive \ WorkerStopEffect(alive))
               /\ calls' = [calls EXCEPT ![c].pc = "stop_clear", ![c].out = o]
               /\ ret' = NoRet
          ELSE /\ AfterStop(c, o, StopFailure(o))
               /\ UNCHANGED << alive, streams >>
    /\ UNCHANGED << pid, lock, nextPid, workers, mountVars >>

\* Variant of StopClear: the tracked pid is left as it is.
StopClearKeepsPid(c) ==
    /\ calls[c].pc = "stop_clear"
    /\ lock = None
    /\ AfterStop(c, calls[c].out, Ok(Unit))
    /\ UNCHANGED << pid, lock, nextPid, alive, workers, mountVars, streams >>

\* state.pid.lock(); *lock = None; Ok(())
StopClear(c) ==
    /\ calls[c].pc = "stop_clear"
    /\ lock = None
    /\ pid' = None
    /\ AfterStop(c, calls[c].out, Ok(Unit))
    /\ UNCHANGED << lock, nextPid, alive, workers, mountVars, streams >>

\* ------------------------------------------------------ set_network_port
CallSetNetworkPort(c, port) ==
    /\ Invoke(c, "set_network_port", "stop_run", Some(port))
    /\ UNCHANGED << pid, lock, nextPid, alive, workers, mountVars, streams >>

\* ----------------------------------------------------------------- logout
CallLogout(c) ==
    /\ Invoke(c, "logout", "stop_run", None)
    /\ UNCHANGED << pid, lock, nextPid, alive, workers, mountVars, streams >>

\* .output().await of `auth --logout` completes.
LogoutExit(c) ==
    /\ calls[c].pc = "logout_run"
    /\ \E o \in CommandOutcomes :
          Finish(c, o, CASE Success(o) -> Ok(Unit)
                         [] o.kind = "unavailable" ->
                              Err("SidecarSpawnFailed", OsError)
                         [] o.kind = "launch_failed" -> Err("IoError", OsError)
                         [] OTHER -> Err("AuthFailed", o.stderr))
    /\ UNCHANGED << pid, lock, nextPid, alive, workers, mountVars, streams >>

\* ------------------------------------------------------------ get_status
\* app.emit("status:update", default_status_response()), then the worker is
\* invoked with `status --json`.
CallGetStatus(c) ==
    /\ Invoke(c, "get_status", "gs_run", None)
    /\ UNCHANGED << pid, lock, nextPid, alive, workers, mountVars, streams >>

\* Variant of Degrade: the timeout is returned as an error.
DegradeToError(reason) ==
    IF reason = "timeout" THEN Err("ServerInitTimeout", << >>)
    ELSE Ok(default_status_response)

\* Variant of Degrade: the default status is given the tracked pid.
DegradeWithTrackedPid(reason) ==
    Ok([default_status_response EXCEPT !.pid = pid])

\* return Ok(default_status_response()) after log::warn!
Degrade(reason) == Ok(default_status_response)

\* Variant of NeedsBackfill: the tracked pid always replaces the parsed one.
NeedsBackfillAlways(status) == TRUE

\* status.server.pid.is_none()
NeedsBackfill(status) == status.pid = None

\* status.server.pid = *lock
BackfillPid(status, tracked) == [status EXCEPT !.pid = tracked]

\* The status the worker's output parses to, if the output gets that far.
Parsed(o) ==
    LET json == IF Success(o) THEN ExtractJson(o.stdout) ELSE None
    IN  IF IsSome(json) THEN ParseStatus(Unwrap(json)) ELSE None

\* Why get_status gave up on o.
Failure(o) ==
    CASE o.kind # "exited" -> o.kind
      [] o.code # 0 -> "nonzero"
      [] ExtractJson(o.stdout) = None -> "no_json"
      [] OTHER -> "parse"

\* get_status has returned r: the command get_status hands it to the
\* frontend, while the mount commands take the status out of it
\* (.unwrap_or_else(|_| default_status_response())) and go on.
AfterStatus(c, o, r) ==
    IF calls[c].op = "get_status"
    THEN Finish(c, o, r)
    ELSE /\ calls' = [calls EXCEPT
                ![c].pc = "have_status", ![c].out = o,
                ![c].status = Some(IF r.kind = "Ok" THEN r.val
                                   ELSE default_status_response)]
         /\ ret' = NoRet

\* The timeout, the exit status, the extraction and the parse.
GsExit(c, outcomes) ==
    /\ calls[c].pc = "gs_run"
    /\ \E o \in outcomes :
          CASE Parsed(o) = None -> AfterStatus(c, o, Degrade(Failure(o)))
            [] NeedsBackfill(Unwrap(Parsed(o))) ->
                  /\ calls' = [calls EXCEPT ![c].pc = "gs_lock", ![c].out = o]
                  /\ ret' = NoRet
            [] OTHER -> AfterStatus(c, o, Ok(Unwrap(Parsed(o))))
    /\ UNCHANGED << pid, lock, nextPid, alive, workers, mountVars, streams >>

\* Variant of GsBackfill: the back-fill clears the tracked pid.
GsBackfillClearsPid(c) ==
    /\ calls[c].pc = "gs_lock"
    /\ lock = None
    /\ pid' = None
    /\ AfterStatus(c, calls[c].out,
                   Ok(BackfillPid(Unwrap(Parsed(calls[c].out)), pid)))
    /\ UNCHANGED << lock, nextPid, alive, workers, mountVars, streams >>

\* state.pid.lock(), the back-fill, Ok(status)
GsBackfill(c) ==
    /\ calls[c].pc = "gs_lock"
    /\ lock = None
    /\ AfterStatus(c, calls[c].out,
                   Ok(BackfillPid(Unwrap(Parsed(calls[c].out)), pid)))
    /\ UNCHANGED << pid, lock, nextPid, alive, workers, mountVars, streams >>

\* --------------------------------------------------------- specifications
Supervise(c, ports) ==
    \/ \E port \in ports : CallStart(c, port)
    \/ StartLock(c)
    \/ StartSpawn(c)
    \/ CallStop(c)
    \/ StopExit(c)
    \/ StopClear(c)
    \/ \E port \in Ports : CallSetNetworkPort(c, port)
    \/ CallLogout(c)
    \/ LogoutExit(c)

Environment ==
    \/ \E w \in alive : WorkerExit(w)
    \/ \E w \in DOMAIN workers : StreamTerminated(w)

\* Every command, from every caller, with a few worker outputs;
\* start_sidecar is invoked without a port.
Next ==
    \/ \E c \in Callers :
          \/ Supervise(c, {None})
          \/ CallGetStatus(c)
          \/ GsExit(c, SampleOutcomes)
          \/ GsBackfill(c)
    \/ Environment

Spec == Init /\ [][Next]_vars

\* One caller that starts, stops, restarts and logs out, one command after
\* the other, and the workers.
NextSequential ==
    Supervise(1, {None} \cup { Some(p) : p \in Ports }) \/ Environment

SpecSequential == Init /\ [][NextSequential]_vars

\* One caller that starts and stops workers, the workers that write and
\* exit, and the output tasks.
NextStream ==
    \/ CallStart(1, None)
    \/ StartLock(1)
    \/ StartSpawn(1)
    \/ CallStop(1)
    \/ StopExit(1)
    \/ StopClear(1)
    \/ \E w \in alive : WorkerExit(w)
    \/ \E w \in alive, e \in CommandEvents : WorkerWrites(w, e)
    \/ \E w \in DOMAIN workers : StreamRecv(w)
    \/ \E w \in DOMAIN workers : StreamTerminated(w)

SpecStream == Init /\ [][NextStream]_vars

\* One caller that starts workers and queries the status, with every worker
\* output of at most MaxOut tokens.
NextStatus ==
    \/ \E port \in {None} \cup { Some(p) : p \in Ports } : CallStart(1, port)
    \/ StartLock(1)
    \/ StartSpawn(1)
    \/ CallGetStatus(1)
    \/ GsExit(1, StatusOutcomes(Outputs))
    \/ GsBackfill(1)

SpecStatus == Init /\ [][NextStatus]_vars

\* ------------------------------------------------------------------ claims
StartOps == {"start_sidecar", "set_network_port"}

\* C1: at most one worker spawned by the supervisor is alive at any time,
\* under any interleaving of start_sidecar, stop_sidecar, set_network_port
\* and logout (a `stop` that exits 0 ends the running instance).
C1_AtMostOneWorkerAlive == Cardinality(alive) <= 1

\* C2: the step of start_sidecar that finds a tracked pid under the lock
\* returns SidecarAlreadyRunning, spawns no worker and leaves pid unchanged.
C2_StartWhileRunningRejected ==
    [][\A c \in Callers :
          (calls[c].pc = "start_lock" /\ IsSome(pid) /\ calls'[c] # calls[c])
          => /\ ret'.op = calls[c].op
             /\ ret'.res = Err("SidecarAlreadyRunning", << >>)
             /\ pid' = pid
             /\ alive' = alive
             /\ workers' = workers
             /\ nextPid' = nextPid]_vars

\* A start has just been rejected while a pid is tracked.
C2_Witness ==
    /\ ret.op \in StartOps
    /\ ret.res = Err("SidecarAlreadyRunning", << >>)
    /\ IsSome(pid)

\* C3: every step of a stop_sidecar either (a) sees `stop` exit 0 and goes on
\* to the clearing step without touching pid, (b) is that clearing step, sets
\* pid to None and returns Ok, (c) sees `stop` exit non-zero, returns
\* SidecarCommandFailed with the stderr text and leaves pid unchanged, or
\* (d) fails to launch `stop`, returns an error and leaves pid unchanged.
C3_StopClearsPidOnSuccessOnly ==
    [][\A c \in Callers :
          (calls[c].op = "stop_sidecar" /\ calls'[c] # calls[c])
          => \/ /\ calls[c].pc = "stop_run"
                /\ calls'[c].pc = "stop_clear"
                /\ Success(calls'[c].out)
                /\ pid' = pid
             \/ /\ calls[c].pc = "stop_clear"
                /\ Success(calls[c].out)
                /\ pid' = None
                /\ ret'.op = "stop_sidecar"
                /\ ret'.res = Ok(Unit)
             \/ /\ calls[c].pc = "stop_run"
                /\ ret'.op = "stop_sidecar"
                /\ ret'.out.kind = "exited"
                /\ ret'.out.code # 0
                /\ ret'.res = Err("SidecarCommandFailed", ret'.out.stderr)
                /\ pid' = pid
             \/ /\ calls[c].pc = "stop_run"
                /\ ret'.op = "stop_sidecar"
                /\ ret'.out.kind \in {"unavailable", "launch_failed"}
                /\ ret'.res.kind = "Err"
                /\ pid' = pid]_vars

\* A stop has just failed with a stderr text while a pid is tracked.
C3_Witness ==
    /\ ret.op = "stop_sidecar"
    /\ ret.out.kind = "exited"
    /\ ret.res.kind = "Err"
    /\ ret.res.err = "SidecarCommandFailed"
    /\ ret.res.detail # << >>
    /\ IsSome(pid)

\* C4: once the output task has observed the termination of the tracked
\* worker, the tracked pid is None.
C4_PidClearedOnTermination ==
    IsSome(pid) => workers[Unwrap(pid)].stream # "ended"

\* C5, as claimed: the lock is not held by a command that is spawning a
\* worker, awaiting a process exit or waiting on a timeout, and no
\* get_status waits for the lock while a spawn is under way.
C5_LockNeverHeldAcrossSpawn ==
    /\ \A c \in Callers :
          lock = Some(c)
          => calls[c].pc \notin {"start_spawn", "stop_run", "logout_run", "gs_run"}
    /\ \A c, d \in Callers :
          ~(lock = Some(c) /\ calls[c].pc = "start_spawn"
              /\ calls[d].pc = "gs_lock")

\* C5, amended: the lock is never held by a command that awaits a process
\* exit or waits on a timeout; between steps it is held only by a start that
\* has passed the check for a tracked pid and is spawning the worker.
C5_LockHeldOnlyAcrossSpawn ==
    \A c \in Callers :
        lock = Some(c)
        => /\ calls[c].op \in StartOps
           /\ calls[c].pc = "start_spawn"

\* A get_status waits for the lock that a spawning start holds.
C5_Witness ==
    \E c, d \in Callers :
        /\ lock = Some(c)
        /\ calls[c].pc = "start_spawn"
        /\ calls[d].op = "get_status"
        /\ calls[d].pc = "gs_lock"

\* get_status has just returned after its `status --json` ran into one of
\* the failure modes: executable unavailable, launch failure, timeout,
\* non-zero exit, no JSON found, JSON that does not parse.
GaveUp ==
    /\ ret.op = "get_status"
    /\ \/ ret.out.kind \in {"unavailable", "launch_failed", "timeout"}
       \/ ret.out.code # 0
       \/ ret.json = None
       \/ ParseStatus(Unwrap(ret.json)) = None

\* C6: get_status never returns an error, and in every failure mode it
\* returns Ok with the default status.
C6_GetStatusNeverErrs ==
    /\ ret.op = "get_status" => ret.res.kind = "Ok"
    /\ GaveUp => ret.res = Ok(default_status_response)

\* get_status has just returned Ok although the status query timed out.
C6_Witness ==
    /\ ret.op = "get_status"
    /\ ret.out.kind = "timeout"
    /\ ret.res.kind = "Ok"

\* C7: a degraded status is the documented default (running=false, pid=null,
\* url=null, loggedIn=false, host localhost, port 8080) whatever pid is
\* tracked.
C7_DegradedIsDocumentedDefault ==
    GaveUp => /\ ret.res.val.running = FALSE
              /\ ret.res.val.pid = None
              /\ ret.res.val.url = None
              /\ ret.res.val.loggedIn = FALSE
              /\ ret.res.val.host = "localhost"
              /\ ret.res.val.port = 8080

\* The status query has just timed out while a pid is tracked.
C7_Witness ==
    /\ ret.op = "get_status"
    /\ ret.out.kind = "timeout"
    /\ IsSome(pid)
    /\ ret.res.val.pid = None

\* C8: the step in which get_status returns a parsed status returns it with
\* pid replaced by the pid tracked at that step if the parsed pid is null,
\* and returns it unchanged otherwise.
C8_BackfillIffPidNull ==
    [][(ret'.op = "get_status" /\ IsSome(ret'.json)
          /\ IsSome(ParseStatus(Unwrap(ret'.json))))
       => LET status == Unwrap(ParseStatus(Unwrap(ret'.json)))
          IN  ret'.res = Ok(IF status.pid = None
                            THEN [status EXCEPT !.pid = pid]
                            ELSE status)]_vars

\* A parsed status without pid has just been returned with the tracked pid.
C8_Witness ==
    /\ ret.op = "get_status"
    /\ IsSome(ret.json)
    /\ IsSome(ParseStatus(Unwrap(ret.json)))
    /\ Unwrap(ParseStatus(Unwrap(ret.json))).pid = None
    /\ IsSome(pid)
    /\ ret.res.val.pid = pid

\* Everything from the first opening brace of s onward, if s has one.
FromFirstBrace(s) ==
    IF \E i \in 1..Len(s) : s[i] \in OpensBrace
    THEN LET i == CHOOSE k \in 1..Len(s) :
                     /\ s[k] \in OpensBrace
                     /\ \A j \in 1..(k - 1) : s[j] \notin OpensBrace
         IN  Some([n \in 1..(Len(s) - i + 1) |-> s[n + i - 1]])
    ELSE None

\* Some opening brace of s has nothing but blanks before it on its line.
BraceOpensALine(s) ==
    \E i \in 1..Len(s) :
        /\ s[i] \in OpensBrace
        /\ \A j \in 1..(i - 1) :
              s[j] = " " \/ \E k \in j..(i - 1) : s[k] = "\n"

\* C9, as claimed: the JSON document is everything from the first opening
\* brace of the combined output (stdout and stderr) onward.
C9_JsonFromFirstBraceAnywhere ==
    (ret.op = "get_status" /\ Success(ret.out))
    => ret.json = FromFirstBrace(ret.out.stdout \o ret.out.stderr)

\* C9, amended: the JSON document is everything from the first opening brace
\* of stdout onward if some line of stdout starts with an opening brace after
\* leading blanks, and there is no JSON document otherwise; stderr is not
\* looked at.
C9_JsonFromFirstBraceIfBraceLine ==
    (ret.op = "get_status" /\ Success(ret.out))
    => ret.json = IF BraceOpensALine(ret.out.stdout)
                  THEN FromFirstBrace(ret.out.stdout)
                  ELSE None

\* The document was taken from a brace in mid-line, because a later line
\* starts with a brace; stderr held a brace too.
C9_Witness ==
    /\ ret.op = "get_status"
    /\ Success(ret.out)
    /\ IsSome(ret.json)
    /\ ret.out.stdout[1] = "t"
    /\ ret.out.stdout[2] = "{"
    /\ ret.out.stderr # << >>

\* Text without a status document in it.
IsPreamble(s) == s # << >> /\ \A i \in 1..Len(s) : s[i] \notin DOMAIN Documents

\* C10: when stdout is a preamble without JSON followed by a well-formed
\* status document, get_status returns the status of that document (with the
\* tracked pid if the document has none).
C10_PreambleIgnored ==
    (ret.op = "get_status" /\ Success(ret.out))
    => \A i \in 2..Len(ret.out.stdout) :
          LET pre == SubSeq(ret.out.stdout, 1, i - 1)
              doc == ParseStatus(SubSeq(ret.out.stdout, i, Len(ret.out.stdout)))
          IN  (IsPreamble(pre) /\ IsSome(doc))
              => ret.res = Ok(IF Unwrap(doc).pid = None
                              THEN [Unwrap(doc) EXCEPT !.pid = pid]
                              ELSE Unwrap(doc))

\* ========================================================= the Mount Locator
\* URIs are sequences of characters; a letter stands for a run of letters
\* ("d" for dav, "l" for localhost, "w" for http, "n" for 127.0.0.1).
MaxUri == 3
MaxTable == 2

EndsWithSlash(s) == s # << >> /\ s[Len(s)] = "/"

\* Variant of NormalizeUri: the URI is compared as it is.
NormalizeUriAsIs(s) == s

\* if s.ends_with('/') { s } else { format!("{}/", s) }
NormalizeUri(s) == IF EndsWithSlash(s) THEN s ELSE Append(s, "/")

\* s.rfind(ch): the last position of ch in s
RFind(s, ch) ==
    LET at == { i \in 1..Len(s) : s[i] = ch }
    IN  IF at = {} THEN None
        ELSE Some(CHOOSE i \in at : \A j \in at : j <= i)

\* Variant of TrimEndMatches: nothing is trimmed.
TrimEndMatchesNothing(s, ch) == s

\* s.trim_end_matches(ch): s without all the ch it ends with
TrimEndMatches(s, ch) ==
    LET keep == { i \in 1..Len(s) : s[i] # ch }
    IN  IF keep = {} THEN << >>
        ELSE SubSeq(s, 1, CHOOSE i \in keep : \A j \in keep : j <= i)

IsAsciiDigit(ch) == ch \in {"0", "1", "2", "3", "4", "5", "6", "7", "8", "9"}

\* s.contains(pat)
Contains(s, pat) ==
    \E i \in 0..(Len(s) - Len(pat)) : SubSeq(s, i + 1, i + Len(pat)) = pat

\* Variant of FirstHit: the last of the positions.
LastHit(hits) ==
    IF hits = {} THEN None
    ELSE Some(CHOOSE i \in hits : \A j \in hits : j <= i)

\* The first of the positions hits, if there is one: where a loop over the
\* table returns.
FirstHit(hits) ==
    IF hits = {} THEN None
    ELSE Some(CHOOSE i \in hits : \A j \in hits : i <= j)

\* Variant of find_mount_by_uri: one pass over the table, which returns at
\* the first mount that matches exactly or by port.
FindMountInOnePass(mounts, target) ==
    LET colon_pos == RFind(target, ":")
        after == SubSeq(target, Unwrap(colon_pos) + 1, Len(target))
        port_str == TrimEndMatches(after, "/")
        with_port == /\ IsSome(colon_pos)
                     /\ \A k \in 1..Len(port_str) : IsAsciiDigit(port_str[k])
        hit == FirstHit({ i \in 1..Len(mounts) :
                  \/ NormalizeUri(mounts[i][1]) = NormalizeUri(target)
                  \/ with_port /\ Contains(mounts[i][1], << ":" >> \o port_str) })
    IN  IF IsSome(hit) THEN Some(mounts[Unwrap(hit)][2]) ELSE None

\* find_mount_by_uri: mounts is a sequence of pairs << uri, can_unmount >>.
\* The first pass compares the normalized URIs; the second pass looks for
\* ":<port>" of the target anywhere in a mount's URI.
find_mount_by_uri(mounts, target) ==
    LET normalized_target == NormalizeUri(target)
        exact == { i \in 1..Len(mounts) :
                      NormalizeUri(mounts[i][1]) = normalized_target }
        colon_pos == RFind(target, ":")
        after == SubSeq(target, Unwrap(colon_pos) + 1, Len(target))
        port_str == TrimEndMatches(after, "/")
        by_port == { i \in 1..Len(mounts) :
                        Contains(mounts[i][1], << ":" >> \o port_str) }
        first == FirstHit(exact)
        second == FirstHit(by_port)
    IN  CASE IsSome(first) -> Some(mounts[Unwrap(first)][2])
          [] /\ IsSome(colon_pos)
             /\ \A k \in 1..Len(port_str) : IsAsciiDigit(port_str[k])
             /\ IsSome(second) -> Some(mounts[Unwrap(second)][2])
          [] OTHER -> None

\* Every sequence over S of at most n elements.
SeqsUpTo(S, n) == UNION { [1..k -> S] : k \in 0..n }

UriChars == {"h", ":", "/", "1", "2"}

\* The targets the locator is applied to: every text of at most MaxUri
\* characters.
LocatorTargets == SeqsUpTo(UriChars, MaxUri)

\* The URIs of the mounts in the tables the locator is applied to: with and
\* without the trailing slash, another host on the same port, a port that
\* starts with the same digit, and a URI without a port.
LocatorUris ==
    { << "h", ":", "1", "/" >>, << "h", ":", "1" >>, << "g", ":", "1", "/" >>,
      << "g", ":", "1", "2", "/" >>, << "h", "/" >> }

LocatorTables == SeqsUpTo(LocatorUris \X BOOLEAN, MaxTable)

\* A table and a target, before find_mount_by_uri is applied to them.
InitLocate ==
    /\ pid = None
    /\ lock = None
    /\ nextPid = 1
    /\ alive = {}
    /\ workers = << >>
    /\ calls = [c \in Callers |-> Idle]
    /\ ret = NoRet
    /\ mthreads = << >>
    /\ streams = [w \in 1..MaxSpawns |-> NewStream]
    /\ ser = NoSer
    /\ \E m \in LocatorTables, t \in LocatorTargets :
          loc = [ kind |-> "input", mounts |-> m, target |-> t,
                  result |-> None ]

\* find_mount_by_uri is applied to the table and the target.
Locate ==
    /\ loc.kind = "input"
    /\ loc' = [ loc EXCEPT !.kind = "located",
                  !.result = find_mount_by_uri(loc.mounts, loc.target) ]
    /\ UNCHANGED << pid, lock, nextPid, alive, workers, calls, ret, mthreads,
                    streams, ser >>

SpecLocate == InitLocate /\ [][Locate]_vars

\* ============================================ unmount_drive, check_mount_status
DigitChars == << "0", "1", "2", "3", "4", "5", "6", "7", "8", "9" >>

\* port.to_string(): the decimal digits of n
RECURSIVE Digits(_)
Digits(n) ==
    IF n < 10 THEN << DigitChars[n + 1] >>
    ELSE Append(Digits(n \div 10), DigitChars[(n % 10) + 1])

\* format!("dav://localhost:{}", status.config.webdav.port)
TargetUri(status) == << "d", ":", "/", "/", "l", ":" >> \o Digits(status.port)

\* A mount of the operating system's volume monitor.
OsMount(uri, can_unmount) ==
    [ uri |-> uri, can_unmount |-> can_unmount, name |-> << "v" >> \o uri ]

Dav9000 == << "d", ":", "/", "/", "l", ":", "9", "0", "0", "0", "/" >>
Http9000 == << "w", ":", "/", "/", "n", ":", "9", "0", "0", "0", "/" >>
Dav8080 == << "d", ":", "/", "/", "l", ":", "8", "0", "8", "0" >>
Dav9000Bare == << "d", ":", "/", "/", "l", ":", "9", "0", "0", "0" >>

\* The mounts the volume monitor may list: the bridge's endpoint with the
\* trailing slash GIO adds, unmountable or not, the same endpoint without
\* the slash, the same port under another scheme and host, and the default
\* endpoint.
OsMounts ==
    { OsMount(Dav9000, TRUE), OsMount(Dav9000, FALSE),
      OsMount(Dav9000Bare, TRUE),
      OsMount(Http9000, TRUE), OsMount(Dav8080, TRUE) }

OsTables == SeqsUpTo(OsMounts, MaxTable)

\* `gio mount -u <uri>`: exit code and stderr.
GioOutcomes ==
    { LaunchFailed, Exited(0, << >>, << >>), Exited(1, << >>, << "t" >>) }

\* mounts_vec: (uri, can_unmount) of every mount
MountsVec(mounts) ==
    [ i \in 1..Len(mounts) |-> << mounts[i].uri, mounts[i].can_unmount >> ]

\* Variant of UnmountRefusal: both cases get the same message.
UnmountRefusalMerged(located) == << "Mount not found" >>

\* The message of Some(false) and of None.
UnmountRefusal(located) ==
    IF located = Some(FALSE)
    THEN << "Mount cannot be unmounted via GIO" >>
    ELSE << "Mount not found" >>

\* unmount_drive after the status query: what it dispatches, emits and
\* returns for the mounts the monitor lists and the outcome gio of
\* `gio mount -u`, which runs only for a mount whose normalized URI equals
\* the normalized target.
UnmountOutcome(mounts, target, gio) ==
    LET located == find_mount_by_uri(MountsVec(mounts), target)
        same == { i \in 1..Len(mounts) :
                 NormalizeUri(mounts[i].uri) = NormalizeUri(target) }
        hit == FirstHit(same)
        seen == [ kind |-> "unmount", mounts |-> mounts, target |-> target,
                  located |-> located, dispatched |-> None, gio |-> NoOut ]
        ran == [ seen EXCEPT !.dispatched = Some(mounts[Unwrap(hit)].uri),
                             !.gio = gio ]
        failed == << "Failed to unmount: " >> \o gio.stderr
    IN  CASE located # Some(TRUE) ->
               [ res |-> Err("GioError", UnmountRefusal(located)),
                 ev |-> << UnmountRefusal(located) >>, obs |-> seen ]
          [] hit = None ->
               [ res |-> Ok(Unit), ev |-> << >>, obs |-> seen ]
          [] gio.kind = "launch_failed" ->
               [ res |-> Err("IoError",
                             << "Failed to execute gio command: " >> \o OsError),
                 ev |-> << >>, obs |-> ran ]
          [] ~Success(gio) ->
               [ res |-> Err("GioError", failed), ev |-> << failed >>,
                 obs |-> ran ]
          [] OTHER ->
               [ res |-> Ok(Unit), ev |-> << << "Unmounted" >> >>, obs |-> ran ]

CallUnmount(c) ==
    /\ Invoke(c, "unmount_drive", "gs_run", None)
    /\ UNCHANGED << pid, lock, nextPid, alive, workers, mountVars, streams >>

\* The volume monitor is read, the locator applied and gio run.
UnmountRun(c) ==
    /\ calls[c].op = "unmount_drive"
    /\ calls[c].pc = "have_status"
    /\ \E mounts \in OsTables, gio \in GioOutcomes :
          LET u == UnmountOutcome(mounts, TargetUri(Unwrap(calls[c].status)), gio)
          IN  FinishWith(c, calls[c].out, u.res, u.ev, u.obs)
    /\ UNCHANGED << pid, lock, nextPid, alive, workers, mountVars, streams >>

\* check_mount_status after the status query: the name of the first mount
\* whose normalized URI equals the normalized target, and the events.
CheckOutcome(mounts, target) ==
    LET same == { i \in 1..Len(mounts) :
                 NormalizeUri(mounts[i].uri) = NormalizeUri(target) }
        hit == FirstHit(same)
        last == IF hit = None THEN Len(mounts) ELSE Unwrap(hit)
        checking == [ i \in 1..last |-> << "Checking mount: " >> \o mounts[i].uri ]
        seen == [ kind |-> "check", mounts |-> mounts, target |-> target ]
    IN  IF hit = None
        THEN [ res |-> Ok(None), obs |-> seen,
               ev |-> Append(checking, << "No matching mount found" >>) ]
        ELSE [ res |-> Ok(Some(mounts[Unwrap(hit)].name)), obs |-> seen,
               ev |-> checking ]

CallCheckMount(c) ==
    /\ Invoke(c, "check_mount_status", "gs_run", None)
    /\ UNCHANGED << pid, lock, nextPid, alive, workers, mountVars, streams >>

CheckRun(c) ==
    /\ calls[c].op = "check_mount_status"
    /\ calls[c].pc = "have_status"
    /\ \E mounts \in OsTables :
          LET k == CheckOutcome(mounts, TargetUri(Unwrap(calls[c].status)))
          IN  FinishWith(c, calls[c].out, k.res, k.ev, k.obs)
    /\ UNCHANGED << pid, lock, nextPid, alive, workers, mountVars, streams >>

\* ================================================== mount_drive (Linux build)
\* The number of mount threads a behaviour spawns.
MaxMounts == 1

NotRunningMsg == << "WebDAV server is not running. Start the server first." >>

\* Variant of ServerRunning: the check of status.server.running is missing.
ServerRunningAlways(status) == TRUE

\* status.server.running
ServerRunning(status) == status.running

\* Texts of the error a mount request completes with (e.to_string()), word
\* by word: two that say the location is mounted already, two that do not
\* say it in these letters, and another error.
MountErrors ==
    { << "x", " ", "already", " ", "mounted" >>,
      << "Already", " ", "mounted", " ", "x" >>,
      << "ALREADY", " ", "mounted" >>,
      << "already", "mounted" >>,
      << "x" >> }

\* What the completion callback is handed: Result<(), glib::Error>.
MountCompletions ==
    { [kind |-> "Ok"] } \cup { [kind |-> "Err", msg |-> e] : e \in MountErrors }

\* Variant of AlreadyMounted: no error counts as already mounted.
AlreadyMountedNever(err_msg) == FALSE

\* err_msg.contains("already mounted") || err_msg.contains("Already mounted")
AlreadyMounted(err_msg) ==
    \/ Contains(err_msg, << "already", " ", "mounted" >>)
    \/ Contains(err_msg, << "Already", " ", "mounted" >>)

\* Variant of CallbackResult: every completion is sent as success.
CallbackResultAlwaysOk(result) == Ok(Unit)

\* The Result<(), String> the callback sends on the inner channel.
CallbackResult(result) ==
    CASE result.kind = "Ok" -> Ok(Unit)
      [] AlreadyMounted(result.msg) -> Ok(Unit)
      [] OTHER -> Err("String", result.msg)

\* Variant of InnerResult: an empty inner channel counts as success.
InnerResultSwallowed(inner) == IF inner = None THEN Ok(Unit) ELSE Unwrap(inner)

\* inner_rx.try_recv().unwrap_or_else(|_| Err("Mount timed out".into()))
InnerResult(inner) ==
    IF inner = None THEN Err("String", << "Mount timed out" >>)
    ELSE Unwrap(inner)

\* A mount thread that was just spawned: no context, no loop, no watchdog.
NewThread ==
    [ pc |-> "spawned", running |-> FALSE, wd |-> "none", cb |-> None,
      inner |-> None, sent |-> None ]

CallMount(c) ==
    /\ Len(mthreads) < MaxMounts
    /\ Invoke(c, "mount_drive", "gs_run", None)
    /\ UNCHANGED << pid, lock, nextPid, alive, workers, mountVars, streams >>

\* The check of the status; then "Mounting..." is emitted and the mount
\* thread spawned.
MountCheck(c) ==
    /\ calls[c].op = "mount_drive"
    /\ calls[c].pc = "have_status"
    /\ IF ~ServerRunning(Unwrap(calls[c].status))
       THEN /\ FinishWith(c, calls[c].out, Err("GioError", NotRunningMsg),
                          << NotRunningMsg >>,
                          [ kind |-> "refused", status |-> Unwrap(calls[c].status) ])
            /\ UNCHANGED mthreads
       ELSE /\ mthreads' = Append(mthreads, NewThread)
            /\ calls' = [calls EXCEPT
                  ![c].pc = "mount_wait",
                  ![c].ev = << << "Mounting..." >> >>,
                  ![c].obs = [ kind |-> "mount", tid |-> Len(mthreads) + 1,
                               status |-> Unwrap(calls[c].status) ]]
            /\ ret' = NoRet
    /\ UNCHANGED << pid, lock, nextPid, alive, workers, loc, streams, ser >>

\* A step of mount thread t that turns its record into th.
ThreadStep(t, th) ==
    /\ mthreads' = [mthreads EXCEPT ![t] = th]
    /\ ret' = NoRet
    /\ UNCHANGED << pid, lock, nextPid, alive, workers, calls, loc,
                    streams, ser >>

\* MainContext::new(), with_thread_default: either it fails, and the thread
\* sends the context error, or the mount request is issued
\* (mount_enclosing_volume), the MainLoop created and the watchdog spawned.
MountThreadStart(t) ==
    /\ mthreads[t].pc = "spawned"
    /\ \/ ThreadStep(t, [mthreads[t] EXCEPT
              !.pc = "done",
              !.sent = Some(Err("String", << "Context error: " >> \o OsError))])
       \/ ThreadStep(t, [mthreads[t] EXCEPT
              !.pc = "before_run", !.wd = "sleeping"])

\* loop_obj.run() starts: g_main_loop_run marks the loop as running, then
\* iterates the context for as long as the loop is marked so.
LoopRun(t) ==
    /\ mthreads[t].pc = "before_run"
    /\ ThreadStep(t, [mthreads[t] EXCEPT !.pc = "in_loop", !.running = TRUE])

\* The watchdog wakes after its sleep: loop_clone.quit() marks the loop as
\* not running, and the watchdog thread ends.
WatchdogQuit(t) ==
    /\ mthreads[t].wd = "sleeping"
    /\ ThreadStep(t, [mthreads[t] EXCEPT !.wd = "done", !.running = FALSE])

\* An iteration of the loop dispatches the completion of the mount request:
\* the callback converts it and sends it on the inner channel.  Nothing in
\* the callback stops the loop.
Callback(t, result) ==
    /\ mthreads[t].pc = "in_loop"
    /\ mthreads[t].cb = None
    /\ ThreadStep(t, [mthreads[t] EXCEPT
          !.cb = Some(result), !.inner = Some(CallbackResult(result))])

\* loop_obj.run() returns because the loop is marked as not running; the
\* inner channel is read without waiting and the result sent on the outer
\* channel (let _ = tx.send(final_result)).
LoopExit(t) ==
    /\ mthreads[t].pc = "in_loop"
    /\ ~mthreads[t].running
    /\ ThreadStep(t, [mthreads[t] EXCEPT
          !.pc = "done", !.sent = Some(InnerResult(mthreads[t].inner))])

\* Variant of MountReturn: every arm emits 'Mounted'.
MountReturnQuiet(received) ==
    [ res |-> IF received # None /\ Unwrap(received).kind = "Ok"
              THEN Ok(Unit) ELSE Err("MountTimeout", << >>),
      ev |-> << "Mounted" >> ]

\* The arms of match rx.recv_timeout(..): the result and the terminal
\* mount:status event for what was received, None when nothing was.
MountReturn(received) ==
    CASE received = None ->
           [ res |-> Err("MountTimeout", << >>),
             ev |-> << "Mount operation timed out" >> ]
      [] Unwrap(received).kind = "Ok" ->
           [ res |-> Ok(Unit), ev |-> << "Mounted" >> ]
      [] OTHER ->
           LET msg == << "Failed to mount: " >> \o Unwrap(received).detail
           IN  [ res |-> Err("GioError", msg), ev |-> msg ]

\* mount_drive returns what MountReturn says; the record keeps the state of
\* the mount thread at that moment.
MountFinish(c, received) ==
    LET m == MountReturn(received)
    IN  FinishWith(c, calls[c].out, m.res, Append(calls[c].ev, m.ev),
                   [ calls[c].obs EXCEPT !.kind = "mounted" ]
                       @@ [ thread |-> mthreads[calls[c].obs.tid] ])

\* rx.recv_timeout(Duration::from_secs(20)) returns the thread's result.
MountRecv(c) ==
    /\ calls[c].pc = "mount_wait"
    /\ mthreads[calls[c].obs.tid].sent # None
    /\ MountFinish(c, mthreads[calls[c].obs.tid].sent)
    /\ UNCHANGED << pid, lock, nextPid, alive, workers, mountVars, streams >>

\* Variant of MountTimeout: the wait on the outer channel has no bound.
MountTimeoutNever(c) == FALSE

\* rx.recv_timeout(Duration::from_secs(20)) returns Err: 20 seconds have
\* passed and the outer channel is still empty.
MountTimeout(c) ==
    /\ calls[c].pc = "mount_wait"
    /\ mthreads[calls[c].obs.tid].sent = None
    /\ MountFinish(c, None)
    /\ UNCHANGED << pid, lock, nextPid, alive, workers, mountVars, streams >>

\* `status --json` as the mount commands see it: a timeout, a failed exit,
\* and the three documents.
MountStatusOutcomes ==
    { TimedOut, Exited(1, << >>, << "t" >>), Exited(0, << "A" >>, << >>),
      Exited(0, << "B" >>, << >>), Exited(0, << "C" >>, << >>) }

\* One caller that unmounts and asks whether the drive is mounted.
NextUnmount ==
    \/ CallUnmount(1)
    \/ CallCheckMount(1)
    \/ GsExit(1, MountStatusOutcomes)
    \/ GsBackfill(1)
    \/ UnmountRun(1)
    \/ CheckRun(1)

SpecUnmount == Init /\ [][NextUnmount]_vars

\* One caller that queries the status and mounts, and the mount threads.
NextMount ==
    \/ CallGetStatus(1)
    \/ CallMount(1)
    \/ GsExit(1, MountStatusOutcomes)
    \/ GsBackfill(1)
    \/ MountCheck(1)
    \/ MountRecv(1)
    \/ MountTimeout(1)
    \/ \E t \in DOMAIN mthreads : MountThreadStart(t)
    \/ \E t \in DOMAIN mthreads : LoopRun(t)
    \/ \E t \in DOMAIN mthreads : WatchdogQuit(t)
    \/ \E t \in DOMAIN mthreads, result \in MountCompletions : Callback(t, result)
    \/ \E t \in DOMAIN mthreads : LoopExit(t)

SpecMount == Init /\ [][NextMount]_vars

\* ------------------------------------------- claims on start, stop, restart
\* C25: in set_network_port a stop step that fails returns nothing and the
\* command goes on to the start step; the command returns only from its
\* start step, Ok exactly when that step has spawned a worker, and
\* otherwise the error of start_sidecar.
C25_RestartReturnsStartResult ==
    [][/\ \A c \in Callers :
            /\ calls[c].op = "set_network_port"
            /\ calls[c].pc \in {"stop_run", "stop_clear"}
            /\ calls'[c] # calls[c]
            => /\ ret' = NoRet
               /\ calls'[c].pc \in {"stop_clear", "start_lock"}
       /\ ret'.op = "set_network_port" =>
            /\ \E c \in Callers :
                  /\ calls[c].op = "set_network_port"
                  /\ calls[c].pc \in {"start_lock", "start_spawn"}
                  /\ calls'[c] = Idle
            /\ ret'.res = Ok(Unit) <=> nextPid' = nextPid + 1
            /\ ret'.res.kind = "Err" =>
                  ret'.res.err \in {"SidecarAlreadyRunning", "SidecarSpawnFailed"}]_vars

\* set_network_port has returned SidecarAlreadyRunning: its stop step had
\* failed, the pid stayed tracked, and the start step refused.
C25_Witness ==
    /\ ret.op = "set_network_port"
    /\ ret.res = Err("SidecarAlreadyRunning", << >>)
    /\ pid # None

\* C26: start_sidecar returns Ok(p) exactly from a step that began with no
\* pid tracked, spawned worker p with its output task and stored p as the
\* tracked pid; it returns SidecarSpawnFailed from a step that began and
\* ends with no pid tracked and started no worker and no output task.
C26_StartStoresAndReturnsPid ==
    [][ret'.op = "start_sidecar" =>
          CASE ret'.res.kind = "Ok" ->
                 /\ pid = None
                 /\ pid' = Some(ret'.res.val)
                 /\ alive' = alive \cup {ret'.res.val}
                 /\ ret'.res.val \notin DOMAIN workers
                 /\ DOMAIN workers' = DOMAIN workers \cup {ret'.res.val}
                 /\ workers'[ret'.res.val].stream = "running"
            [] ret'.res.err = "SidecarSpawnFailed" ->
                 /\ pid = None /\ pid' = None
                 /\ workers' = workers /\ alive' = alive
            [] OTHER -> ret'.res.err = "SidecarAlreadyRunning" /\ pid # None]_vars

\* start_sidecar has returned the pid it stored.
C26_Witness ==
    /\ ret.op = "start_sidecar"
    /\ ret.res.kind = "Ok"
    /\ pid = Some(ret.res.val)

\* C27: a stop_sidecar that returns Ok leaves no pid tracked; no step of a
\* stop_sidecar call sets a pid, so a stop_sidecar that follows, whether it
\* succeeds or fails, still leaves no pid tracked.
C27_RepeatedStopKeepsPidNone ==
    /\ [](ret.op = "stop_sidecar" => /\ ret.res.kind \in {"Ok", "Err"}
                                     /\ ret.res.kind = "Ok" => pid = None)
    /\ [][calls[1].op = "stop_sidecar" \/ calls'[1].op = "stop_sidecar" =>
              pid' = pid \/ pid' = None]_vars

\* A stop_sidecar has failed with no pid tracked after a worker had been
\* started and stopped.
C27_Witness ==
    /\ ret.op = "stop_sidecar"
    /\ ret.res.kind = "Err"
    /\ pid = None
    /\ nextPid > 1

\* --------------------------------------------------- claims on the mounts
\* What the locator says for the table and the target a command has seen.
Located(obs) == find_mount_by_uri(MountsVec(obs.mounts), obs.target)

\* C11: unmount_drive returns Ok only when `gio mount -u` was dispatched for
\* the matched mount and exited with success; whenever the locator reports
\* Some(true) an unmount is dispatched; and a non-zero exit of it is
\* returned as GioError with the stderr text.
C11_OkOnlyAfterSuccessfulUnmount ==
    ret.op = "unmount_drive" =>
        /\ ret.res.kind = "Ok" =>
              ret.obs.dispatched # None /\ Success(ret.obs.gio)
        /\ Located(ret.obs) = Some(TRUE) => ret.obs.dispatched # None
        /\ ret.obs.gio.kind = "exited" /\ ret.obs.gio.code # 0 =>
              ret.res = Err("GioError",
                            << "Failed to unmount: " >> \o ret.obs.gio.stderr)

\* C12: when the locator returns Some(false) or None, unmount_drive
\* dispatches no unmount and fails with GioError; Some(false) gives the
\* message and the one mount:status event 'Mount cannot be unmounted via
\* GIO', None gives 'Mount not found'.
C12_RefusalsDistinctAndWithoutDispatch ==
    ret.op = "unmount_drive" /\ Located(ret.obs) # Some(TRUE) =>
        LET msg == IF Located(ret.obs) = None
                   THEN << "Mount not found" >>
                   ELSE << "Mount cannot be unmounted via GIO" >>
        IN  /\ ret.obs.dispatched = None
            /\ ret.obs.gio = NoOut
            /\ ret.res = Err("GioError", msg)
            /\ ret.ev = << msg >>

\* unmount_drive has refused a mount that is listed as not unmountable.
C12_Witness ==
    /\ ret.op = "unmount_drive"
    /\ Located(ret.obs) = Some(FALSE)
    /\ ret.obs.mounts = << OsMount(Dav9000, FALSE) >>
    /\ ret.res.kind = "Err"

\* C13: check_mount_status returns Some(name) exactly when
\* find_mount_by_uri returns Some(_) for the same table and target.
C13_CheckAgreesWithLocator ==
    ret.op = "check_mount_status" =>
        (ret.res.val # None <=> Located(ret.obs) # None)

\* A mount_drive call has returned after it passed the running check.
MountReturned == ret.op = "mount_drive" /\ ret.obs.kind = "mounted"

\* C14: a mount thread is spawned only by a mount_drive call whose status
\* reports running = true; a call whose status does not (every call whose
\* status query degraded to the default among them) returns GioError with
\* the not-running message, emits that message as its only mount:status
\* event and spawns no mount thread.
C14_MountOnlyWhenRunning ==
    /\ [](/\ ret.op = "mount_drive" =>
                /\ ~ret.obs.status.running \/ Parsed(ret.out) = None =>
                      /\ ret.obs.kind = "refused"
                      /\ ret.res = Err("GioError", NotRunningMsg)
                      /\ ret.ev = << NotRunningMsg >>
                /\ ret.obs.kind = "mounted" => ret.obs.status.running
           /\ \A c \in Callers :
                 calls[c].pc = "mount_wait" => Unwrap(calls[c].status).running)
    /\ [][/\ Len(mthreads') > Len(mthreads) =>
                \E c \in Callers :
                    /\ calls[c].op = "mount_drive"
                    /\ Unwrap(calls[c].status).running
                    /\ calls'[c].pc = "mount_wait"
          /\ ret'.op = "mount_drive" /\ ret'.obs.kind = "refused" =>
                mthreads' = mthreads]_vars

\* mount_drive has refused to mount after its status query timed out.
C14_Witness ==
    /\ ret.op = "mount_drive"
    /\ ret.out = TimedOut
    /\ ret.obs.kind = "refused"
    /\ mthreads = << >>

\* C15: a mount_drive call that waits on the outer channel can always
\* return; it returns Ok or GioError when a result is on the channel, and
\* MountTimeout exactly when it returns with the channel still empty.
C15_MountAlwaysReturns ==
    /\ MountReturned =>
          IF ret.obs.thread.sent = None
          THEN ret.res = Err("MountTimeout", << >>)
          ELSE \/ ret.res = Ok(Unit)
               \/ ret.res.kind = "Err" /\ ret.res.err = "GioError"
    /\ \A c \in Callers :
          calls[c].pc = "mount_wait" => ENABLED (MountRecv(c) \/ MountTimeout(c))

\* mount_drive has returned MountTimeout while its mount thread sits in a
\* loop that nothing will stop.
C15_Witness ==
    /\ MountReturned
    /\ ret.res = Err("MountTimeout", << >>)
    /\ ret.obs.thread.pc = "in_loop"
    /\ ret.obs.thread.running
    /\ ret.obs.thread.wd = "done"

\* C16: no mount thread is ever left in its event loop with the loop marked
\* as running and the watchdog gone; such a thread never leaves the loop
\* and never sends its result.
C16_MountThreadNeverStuck ==
    \A t \in DOMAIN mthreads :
        ~(/\ mthreads[t].pc = "in_loop"
          /\ mthreads[t].running
          /\ mthreads[t].wd = "done")

\* C17: when mount_drive returns what the completion callback was handed,
\* and that is an error, then an error text containing 'already mounted' or
\* 'Already mounted' gives Ok and the event 'Mounted', and every other
\* error text gives GioError 'Failed to mount: <error>' and that event.
C17_AlreadyMountedIsSuccess ==
    /\ MountReturned
    /\ ret.obs.thread.sent # None
    /\ ret.obs.thread.cb # None
    /\ Unwrap(ret.obs.thread.cb).kind = "Err"
    => LET err_msg == Unwrap(ret.obs.thread.cb).msg
           failed == << "Failed to mount: " >> \o err_msg
       IN  IF \/ Contains(err_msg, << "already", " ", "mounted" >>)
              \/ Contains(err_msg, << "Already", " ", "mounted" >>)
           THEN ret.res = Ok(Unit) /\ ret.ev[2] = << "Mounted" >>
           ELSE ret.res = Err("GioError", failed) /\ ret.ev[2] = failed

\* mount_drive has returned Ok for a callback error 'Already mounted x'.
C17_Witness ==
    /\ MountReturned
    /\ ret.obs.thread.cb =
          Some([kind |-> "Err", msg |-> << "Already", " ", "mounted", " ", "x" >>])
    /\ ret.res = Ok(Unit)

\* C18: a mount_drive call that passed the running check has emitted
\* 'Mounting...' while it waits, and returns with exactly one more event,
\* 'Mounted', 'Failed to mount: ...' or 'Mount operation timed out'; it
\* returns Ok exactly when that event is 'Mounted'; and the steps of a
\* mount thread, which may go on after the call has returned, emit nothing.
C18_MountingThenOneTerminalEvent ==
    /\ [](/\ \A c \in Callers :
                calls[c].pc = "mount_wait" =>
                    calls[c].ev = << << "Mounting..." >> >>
          /\ MountReturned =>
                /\ Len(ret.ev) = 2
                /\ ret.ev[1] = << "Mounting..." >>
                /\ \/ ret.ev[2] = << "Mounted" >>
                   \/ ret.ev[2] = << "Mount operation timed out" >>
                   \/ ret.ev[2][1] = "Failed to mount: "
                /\ ret.res.kind = "Ok" <=> ret.ev[2] = << "Mounted" >>)
    /\ [][(\E t \in DOMAIN mthreads : mthreads'[t] # mthreads[t]) =>
              /\ \A c \in Callers : calls'[c].ev = calls[c].ev
              /\ ret' = NoRet]_vars

\* mount_drive has returned Ok after 'Mounting...' and 'Mounted'.
C18_Witness ==
    /\ MountReturned
    /\ ret.res = Ok(Unit)
    /\ ret.ev = << << "Mounting..." >>, << "Mounted" >> >>

\* The watchdog stopped the loop of thread th before any callback had run.
InnerExpired(th) == th.pc = "done" /\ th.wd = "done" /\ th.cb = None

\* C19 (as stated): the expiry of each of the three bounds is returned to
\* the caller as an error: of the 5 seconds on the status query, of the 5
\* seconds of the watchdog, and of the 20 seconds on the outer channel.
C19_EveryTimeoutIsAnError ==
    /\ ret.op = "get_status" /\ ret.out = TimedOut => ret.res.kind = "Err"
    /\ MountReturned /\ InnerExpired(ret.obs.thread) => ret.res.kind = "Err"
    /\ MountReturned /\ ret.obs.thread.sent = None =>
          ret.res = Err("MountTimeout", << >>)

\* C19 (amended): the expiry of the bound on the status query is not
\* returned as an error: get_status returns the default status, and
\* mount_drive then refuses with the not-running message.  The expiry of
\* the watchdog's bound is returned as GioError 'Failed to mount: Mount
\* timed out', that of the outer bound as MountTimeout with the event
\* 'Mount operation timed out'.
C19_MountTimeoutsReportedStatusTimeoutDegraded ==
    /\ ret.op = "get_status" /\ ret.out = TimedOut =>
          ret.res = Ok(default_status_response)
    /\ ret.op = "mount_drive" /\ ret.out = TimedOut =>
          ret.res = Err("GioError", NotRunningMsg)
    /\ MountReturned /\ ret.obs.thread.sent # None
          /\ InnerExpired(ret.obs.thread) =>
          LET msg == << "Failed to mount: ", "Mount timed out" >>
          IN  ret.res = Err("GioError", msg) /\ ret.ev[2] = msg
    /\ MountReturned /\ ret.obs.thread.sent = None =>
          /\ ret.res = Err("MountTimeout", << >>)
          /\ ret.ev[2] = << "Mount operation timed out" >>

\* mount_drive has returned the watchdog's timeout as a GioError.
C19_Witness ==
    /\ MountReturned
    /\ InnerExpired(ret.obs.thread)
    /\ ret.res = Err("GioError", << "Failed to mount: ", "Mount timed out" >>)

\* C20 (as stated): the locator's result for a target t equals its result
\* for t with one trailing slash appended, and its result for t with one
\* trailing slash removed, whatever t is.
C20_TrailingSlashInvariant ==
    loc.kind = "located" =>
        LET t == loc.target
            m == loc.mounts
        IN  /\ loc.result = find_mount_by_uri(m, Append(t, "/"))
            /\ EndsWithSlash(t) =>
                  loc.result = find_mount_by_uri(m, SubSeq(t, 1, Len(t) - 1))

\* C20 (amended): for a target t that does not end with a slash, the
\* locator's result for t equals its result for t with one slash appended;
\* for a target that ends with exactly one slash, it equals the result for
\* the target without that slash.
C20_SlashInvariantForOneSlash ==
    loc.kind = "located" =>
        LET t == loc.target
            m == loc.mounts
            cut == SubSeq(t, 1, Len(t) - 1)
        IN  /\ ~EndsWithSlash(t) =>
                  loc.result = find_mount_by_uri(m, Append(t, "/"))
            /\ EndsWithSlash(t) /\ ~EndsWithSlash(cut) =>
                  loc.result = find_mount_by_uri(m, cut)

\* A target without a trailing slash is found in a table whose only mount
\* has the trailing slash.
C20_Witness ==
    /\ loc.kind = "located"
    /\ loc.target = << "h", ":", "1" >>
    /\ loc.mounts = << << << "h", ":", "1", "/" >>, TRUE >> >>
    /\ loc.result = Some(TRUE)

\* The earliest of a set of positions of a table.
Earliest(S) == CHOOSE i \in S : \A j \in S : i <= j

\* The positions of the mounts whose URI equals the located target, both
\* with a trailing slash added where there is none.
ExactMatches ==
    { i \in 1..Len(loc.mounts) :
        NormalizeUri(loc.mounts[i][1]) = NormalizeUri(loc.target) }

\* The port tokens of s: the text after the last colon of s and before the
\* slashes s ends with.  A text has at most one; it may be empty.
PortTokens(s) ==
    { SubSeq(s, x[1] + 1, x[2]) :
        x \in { y \in (1..Len(s)) \X (1..Len(s)) :
                  /\ y[1] <= y[2]
                  /\ s[y[1]] = ":"
                  /\ \A j \in (y[1] + 1)..Len(s) : s[j] # ":"
                  /\ \A j \in (y[2] + 1)..Len(s) : s[j] = "/"
                  /\ y[2] > y[1] => s[y[2]] # "/" } }

\* The port of s: its port token, when that is a non-empty text of digits.
PortOf(s) ==
    { p \in PortTokens(s) :
        p # << >> /\ \A k \in 1..Len(p) : IsAsciiDigit(p[k]) }

\* The positions of the mounts whose URI contains ":<port>" for a port of
\* the located target.
PortMatches ==
    { i \in 1..Len(loc.mounts) :
        \E p \in PortOf(loc.target) : Contains(loc.mounts[i][1], << ":" >> \o p) }

\* C21: when some mount matches the target exactly, the locator returns the
\* flag of the earliest such mount, also when a mount before it matches the
\* target by port only.
C21_ExactMatchBeforePortMatch ==
    loc.kind = "located" /\ ExactMatches # {} =>
        loc.result = Some(loc.mounts[Earliest(ExactMatches)][2])

\* The second mount of the table matches exactly, the first by port only,
\* and the locator has returned the flag of the second.
C21_Witness ==
    /\ loc.kind = "located"
    /\ loc.target = << "h", ":", "1" >>
    /\ loc.mounts = << << << "g", ":", "1", "/" >>, TRUE >>,
                       << << "h", ":", "1", "/" >>, FALSE >> >>
    /\ loc.result = Some(FALSE)

\* C22: when no mount matches exactly and exactly one mount's URI contains
\* ":<port>" for the target's port, the locator returns that mount's flag,
\* whatever its host and scheme.
C22_SinglePortMatch ==
    /\ loc.kind = "located"
    /\ ExactMatches = {}
    /\ Cardinality(PortMatches) = 1
    => loc.result = Some(loc.mounts[Earliest(PortMatches)][2])

\* A target with a slash after its port is found by port in a mount with
\* another host.
C22_Witness ==
    /\ loc.kind = "located"
    /\ loc.target = << ":", "1", "/" >>
    /\ loc.mounts = << << << "g", ":", "1", "/" >>, TRUE >> >>
    /\ loc.result = Some(TRUE)

\* C23: when no mount matches the target exactly and no mount's port is the
\* target's port, the locator returns None.
C23_NoMatchIsNotFound ==
    /\ loc.kind = "located"
    /\ ExactMatches = {}
    /\ \A i \in 1..Len(loc.mounts) :
          PortOf(loc.mounts[i][1]) \cap PortOf(loc.target) = {}
    => loc.result = None

\* C24: the locator returns the flag of the earliest exact match when there
\* is one, and otherwise the flag of the earliest mount that contains
\* ":<port>" when the target has a port and there is such a mount.
C24_FirstMatchWins ==
    loc.kind = "located" =>
        /\ ExactMatches # {} =>
              loc.result = Some(loc.mounts[Earliest(ExactMatches)][2])
        /\ ExactMatches = {} /\ PortMatches # {} =>
              loc.result = Some(loc.mounts[Earliest(PortMatches)][2])

\* Two mounts contain the target's port, none matches exactly, and the
\* locator has returned the flag of the first.
C24_Witness ==
    /\ loc.kind = "located"
    /\ loc.target = << "h", ":", "1" >>
    /\ loc.mounts = << << << "g", ":", "1", "/" >>, FALSE >>,
                       << << "g", ":", "1", "2", "/" >>, TRUE >> >>
    /\ loc.result = Some(FALSE)

\* C30: when no mount matches exactly and the text after the target's last
\* colon, without the slashes it ends with, is not a non-empty text of
\* digits, the locator returns None.
C30_PortPassNeedsDigits ==
    loc.kind = "located" /\ ExactMatches = {} /\ PortOf(loc.target) = {} =>
        loc.result = None

\* ------------------------------------------------------------ CommandError
\* Longest detail text of an error.
MaxDetail == 2

\* The variants without a payload, with a String, with a u16.
UnitVariants ==
    {"SidecarAlreadyRunning", "SidecarNotRunning", "ServerInitTimeout",
    "MountTimeout", "ServerNotRunning"}

StringVariants ==
    {"SidecarSpawnFailed", "SidecarCommandFailed", "InvalidPort",
    "InvalidEmail", "AuthFailed", "GioError", "IoError", "Unknown"}

PortVariants == {"PortInUse"}

ErrorVariants == UnitVariants \cup StringVariants \cup PortVariants

DetailChars == {"t", ":"}

ErrorPorts == {0, 8080, 65535}

\* A CommandError: text is the String of a variant that has one, port the
\* u16 of PortInUse.
CommandError(v, text, port) == [variant |-> v, text |-> text, port |-> port]

CommandErrors ==
    { CommandError(v, << >>, 0) : v \in UnitVariants }
        \cup { CommandError(v, d, 0) :
                  v \in StringVariants, d \in SeqsUpTo(DetailChars, MaxDetail) }
        \cup { CommandError(v, << >>, p) : v \in PortVariants, p \in ErrorPorts }

\* Variant of code: every error has the code of Unknown.
codeUnknown(e) ==
    << "U", "N", "K", "N", "O", "W", "N", "_", "E", "R", "R", "O", "R" >>

\* CommandError::code(), as the characters of the code.
code(e) ==
    LET v == e.variant IN
    CASE v = "SidecarAlreadyRunning" ->
        << "S", "I", "D", "E", "C", "A", "R", "_", "A", "L", "R", "E", "A",
        "D", "Y", "_", "R", "U", "N", "N", "I", "N", "G" >>
      [] v = "SidecarNotRunning" ->
        << "S", "I", "D", "E", "C", "A", "R", "_", "N", "O", "T", "_", "R",
        "U", "N", "N", "I", "N", "G" >>
      [] v = "SidecarSpawnFailed" ->
        << "S", "I", "D", "E", "C", "A", "R", "_", "S", "P", "A", "W", "N",
        "_", "F", "A", "I", "L", "E", "D" >>
      [] v = "SidecarCommandFailed" ->
        << "S", "I", "D", "E", "C", "A", "R", "_", "C", "O", "M", "M", "A",
        "N", "D", "_", "F", "A", "I", "L", "E", "D" >>
      [] v = "InvalidPort" ->
        << "I", "N", "V", "A", "L", "I", "D", "_", "P", "O", "R", "T" >>
      [] v = "PortInUse" ->
        << "P", "O", "R", "T", "_", "I", "N", "_", "U", "S", "E" >>
      [] v = "InvalidEmail" ->
        << "I", "N", "V", "A", "L", "I", "D", "_", "E", "M", "A", "I", "L" >>
      [] v = "AuthFailed" ->
        << "A", "U", "T", "H", "_", "F", "A", "I", "L", "E", "D" >>
      [] v = "ServerInitTimeout" ->
        << "S", "E", "R", "V", "E", "R", "_", "I", "N", "I", "T", "_", "T",
        "I", "M", "E", "O", "U", "T" >>
      [] v = "MountTimeout" ->
        << "M", "O", "U", "N", "T", "_", "T", "I", "M", "E", "O", "U", "T" >>
      [] v = "ServerNotRunning" ->
        << "S", "E", "R", "V", "E", "R", "_", "N", "O", "T", "_", "R", "U",
        "N", "N", "I", "N", "G" >>
      [] v = "GioError" ->
        << "G", "I", "O", "_", "E", "R", "R", "O", "R" >>
      [] v = "IoError" ->
        << "I", "O", "_", "E", "R", "R", "O", "R" >>
      [] v = "Unknown" ->
        << "U", "N", "K", "N", "O", "W", "N", "_", "E", "R", "R", "O", "R" >>

\* The text of the #[error(..)] attribute of the variant, up to its {0}.
ErrorPrefix(v) ==
    CASE v = "SidecarAlreadyRunning" -> "Sidecar already running"
      [] v = "SidecarNotRunning" -> "Sidecar not running"
      [] v = "SidecarSpawnFailed" -> "Failed to spawn sidecar: "
      [] v = "SidecarCommandFailed" -> "Sidecar command failed: "
      [] v = "InvalidPort" -> "Invalid port number: "
      [] v = "PortInUse" -> "Port already in use: "
      [] v = "InvalidEmail" -> "Invalid email format: "
      [] v = "AuthFailed" -> "Authentication failed: "
      [] v = "ServerInitTimeout" -> "Server initialization timeout"
      [] v = "MountTimeout" -> "Mount operation timeout"
      [] v = "ServerNotRunning" -> "Server not running"
      [] v = "GioError" -> "GIO error: "
      [] v = "IoError" -> "IO error: "
      [] v = "Unknown" -> "Unknown error: "

\* CommandError's Display: the attribute's text with the payload for {0}.
to_string(e) ==
    << ErrorPrefix(e.variant) >>
        \o (IF e.variant \in StringVariants THEN e.text
            ELSE IF e.variant \in PortVariants THEN Digits(e.port)
            ELSE << >>)

\* impl Serialize for CommandError: a struct of the two fields code and
\* message.
Serialize(e) == [code |-> code(e), message |-> to_string(e)]

InitErrors ==
    /\ pid = None
    /\ lock = None
    /\ nextPid = 1
    /\ alive = {}
    /\ workers = << >>
    /\ calls = [c \in Callers |-> Idle]
    /\ ret = NoRet
    /\ mthreads = << >>
    /\ loc = NoLoc
    /\ streams = [w \in 1..MaxSpawns |-> NewStream]
    /\ \E e \in CommandErrors : ser = [kind |-> "input", error |-> e]

\* A command's error is serialized for the frontend.
SerializeError ==
    /\ ser.kind = "input"
    /\ ser' = [kind |-> "serialized", error |-> ser.error,
               out |-> Serialize(ser.error)]
    /\ UNCHANGED << pid, lock, nextPid, alive, workers, calls, ret, mthreads,
                    loc, streams >>

SpecErrors == InitErrors /\ [][SerializeError]_vars

\* --------------------------------------------------- claims on CommandError
UpperCase ==
    {"A", "B", "C", "D", "E", "F", "G", "H", "I", "J", "K", "L", "M", "N",
     "O", "P", "Q", "R", "S", "T", "U", "V", "W", "X", "Y", "Z"}

\* Words of upper-case letters joined by single underscores.
ScreamingSnakeCase(t) ==
    /\ t # << >>
    /\ \A i \in 1..Len(t) : t[i] \in UpperCase \cup {"_"}
    /\ t[1] # "_" /\ t[Len(t)] # "_"
    /\ \A i \in 1..(Len(t) - 1) : ~(t[i] = "_" /\ t[i + 1] = "_")

\* The payload of an error as its message shows it.
PayloadText(e) ==
    IF e.variant \in PortVariants THEN Digits(e.port) ELSE e.text

\* C29: every CommandError has a non-empty SCREAMING_SNAKE_CASE code that
\* is the same for all errors of its variant and differs from the code of
\* every error of another variant, and its serialized form is made of that
\* code and of the human message, payload included.
C29_CodesStableDistinctAndSerialized ==
    ser.kind = "serialized" =>
        LET e == ser.error
            out == ser.out
        IN  /\ ScreamingSnakeCase(out.code)
            /\ \A e2 \in CommandErrors :
                  (e2.variant = e.variant) <=> (Serialize(e2).code = out.code)
            /\ DOMAIN out = {"code", "message"}
            /\ Len(out.message) = 1 + Len(PayloadText(e))
            /\ out.message[1] = ErrorPrefix(e.variant)
            /\ out.message[1] # ""
            /\ SubSeq(out.message, 2, Len(out.message)) = PayloadText(e)

\* PortInUse(8080) has been serialized as PORT_IN_USE with its message.
C29_Witness ==
    /\ ser.kind = "serialized"
    /\ ser.error.variant = "PortInUse"
    /\ ser.out.code = << "P", "O", "R", "T", "_", "I", "N", "_", "U", "S", "E" >>
    /\ ser.out.message = << "Port already in use: ", "8", "0", "8", "0" >>

\* ------------------------------------------------- claims on the output task
IsLine(e) == e.kind \in {"Stdout", "Stderr"}

\* The sidecar:log events that the lines among the received events call
\* for, in the order received.
LogsFor(got) ==
    LET lines == SelectSeq(got, IsLine)
    IN  [i \in 1..Len(lines) |->
            [event |-> "sidecar:log",
             level |-> IF lines[i].kind = "Stdout" THEN "info" ELSE "error",
             message |-> lines[i].line]]

IsLog(ev) == ev.event = "sidecar:log"

IsTerminated(ev) == ev.event = "sidecar:terminated"

StreamEnded(w) == w \in DOMAIN workers /\ workers[w].stream = "ended"

\* The events of worker w's output task are the logs of the lines it has
\* received, in order, followed by one sidecar:terminated when the task has
\* ended and by none before.
StreamFaithful(w) ==
    LET em == streams[w].emitted
    IN  /\ SelectSeq(em, IsLog) = LogsFor(streams[w].got)
        /\ Len(SelectSeq(em, IsTerminated)) = IF StreamEnded(w) THEN 1 ELSE 0
        /\ StreamEnded(w) => IsTerminated(em[Len(em)])

\* C28: the output task emits one sidecar:log per received stdout line at
\* level info and one per received stderr line at level error, in the order
\* received; on the termination event it emits sidecar:terminated exactly
\* once and ends, so that nothing of that worker is emitted afterwards; a
\* step of the task neither needs nor changes the pid lock.
C28_StreamRelaysLinesThenTerminates ==
    /\ [](\A w \in 1..MaxSpawns :
            /\ StreamFaithful(w)
            /\ (w \in DOMAIN workers /\ workers[w].stream = "running"
                    /\ streams[w].rx # << >>)
                  => ENABLED (StreamRecv(w) \/ StreamTerminated(w)))
    /\ [][\A w \in 1..MaxSpawns :
            /\ StreamEnded(w) =>
                  /\ streams'[w].emitted = streams[w].emitted
                  /\ streams'[w].got = streams[w].got
            /\ streams'[w].got # streams[w].got => lock' = lock]_vars

\* A task has relayed a stdout line and a stderr line and has then reported
\* the termination, while a start_sidecar holds the pid lock.
C28_Witness ==
    \E w \in DOMAIN workers :
        /\ StreamEnded(w)
        /\ Len(streams[w].emitted) = 3
        /\ streams[w].emitted[1].level = "info"
        /\ streams[w].emitted[2].level = "error"
        /\ IsSome(lock)

\* --------------------------------------- claims on the mount thread's loop
\* C31: a mount thread whose completion callback has delivered its result
\* while the watchdog still sleeps leaves its event loop and sends the
\* result without waiting for the watchdog.
C31_ResultStopsLoopBeforeWatchdog ==
    \A t \in DOMAIN mthreads :
        (/\ mthreads[t].pc = "in_loop"
         /\ mthreads[t].inner # None
         /\ mthreads[t].wd = "sleeping")
        => ENABLED LoopExit(t)

\* ----------------------------------------------- claims on concurrent starts
\* Every caller starts the supervisor, all at once, while the workers
\* write, their output tasks relay, and the workers exit.
NextStarts ==
    \/ \E c \in Callers, port \in {None} \cup { Some(p) : p \in Ports } :
          CallStart(c, port)
    \/ \E c \in Callers : StartLock(c)
    \/ \E c \in Callers : StartSpawn(c)
    \/ \E w \in alive, e \in CommandEvents : WorkerWrites(w, e)
    \/ \E w \in DOMAIN workers : StreamRecv(w)
    \/ Environment

SpecStarts == Init /\ [][NextStarts]_vars

\* The callers that have passed the check for a tracked pid and have not yet
\* stored theirs.
BetweenCheckAndStore == { c \in Callers : calls[c].pc = "start_spawn" }

\* C32: of the start_sidecar calls issued at once while no pid is tracked,
\* at most one is ever between its check and its store, at most one spawns
\* a worker, and every call that takes the lock after the successful spawn
\* returns SidecarAlreadyRunning without spawning.
C32_ConcurrentStartsSpawnOnce ==
    /\ [](/\ Cardinality(BetweenCheckAndStore) <= 1
          /\ Len(workers) <= 1
          /\ \A c \in BetweenCheckAndStore : lock = Some(c) /\ pid = None)
    /\ [][ret' # NoRet /\ IsSome(pid)
            => /\ ret'.res = Err("SidecarAlreadyRunning", << >>)
               /\ workers' = workers
               /\ pid' = pid]_vars

\* A caller is refused with SidecarAlreadyRunning after another caller's
\* spawn, while a third call, if any, may still wait for the lock.
C32_Witness ==
    /\ ret # NoRet
    /\ ret.res = Err("SidecarAlreadyRunning", << >>)
    /\ Len(workers) = 1
    /\ pid = Some(1)

\* ------------------------------------------ claims on what unmount_drive runs
\* The positions of the mounts a command has seen whose URI equals its
\* target, both with a trailing slash added where there is none.
SameAsTarget(obs) ==
    { i \in 1..Len(obs.mounts) :
        NormalizeUri(obs.mounts[i].uri) = NormalizeUri(obs.target) }

\* C33: an unmount_drive call runs `gio mount -u` at most once, and then
\* for the URI of the first mount of the table whose normalized URI equals
\* the normalized target; without such a mount (a mount that matches by
\* port only, or none) it runs nothing.
C33_UnmountOnlyFirstExactMatch ==
    (ret.op = "unmount_drive" /\ ret.obs.kind = "unmount") =>
        /\ ret.obs.dispatched \in { None } \cup
              { Some(ret.obs.mounts[i].uri) : i \in 1..Len(ret.obs.mounts) }
        /\ ret.obs.dispatched # None =>
              /\ SameAsTarget(ret.obs) # {}
              /\ Unwrap(ret.obs.dispatched)
                    = ret.obs.mounts[Earliest(SameAsTarget(ret.obs))].uri
        /\ ret.obs.dispatched = None => ret.obs.gio = NoOut

\* The unmount was run for the endpoint without the slash, the first of two
\* mounts that equal the target, and with success.
C33_Witness ==
    /\ ret.op = "unmount_drive"
    /\ ret.obs.kind = "unmount"
    /\ ret.obs.mounts = << OsMount(Dav9000Bare, TRUE), OsMount(Dav9000, TRUE) >>
    /\ ret.obs.dispatched = Some(Dav9000Bare)
    /\ ret.res = Ok(Unit)

\* A mount that matches by port only comes first in the table and is left
\* alone: the unmount was run for the mount after it.
C33_WitnessPortOnly ==
    /\ ret.op = "unmount_drive"
    /\ ret.obs.kind = "unmount"
    /\ ret.obs.mounts = << OsMount(Http9000, TRUE), OsMount(Dav9000, TRUE) >>
    /\ ret.obs.dispatched = Some(Dav9000)

\* ------------------------------------------- claims on a restart that fails
\* Caller c is in set_network_port, its stop step has failed (a stop step
\* that succeeds leaves the outcome of `stop` in the call), and its start
\* step has not begun.
RestartAfterFailedStop(c) ==
    /\ calls[c].op = "set_network_port"
    /\ calls[c].pc = "start_lock"
    /\ calls[c].out = NoOut

ReportedSuccess(cb) ==
    \/ cb.kind = "Ok"
    \/ Contains(cb.msg, << "already", " ", "mounted" >>)
    \/ Contains(cb.msg, << "Already", " ", "mounted" >>)

\* mount_drive returns Ok only for a result that its mount thread has sent
\* after a callback that reported success.
OkOnlyAfterSuccessfulCallback ==
    (MountReturned /\ ret.res.kind = "Ok") =>
        /\ ret.obs.thread.pc = "done"
        /\ ret.obs.thread.sent # None
        /\ ret.obs.thread.cb # None
        /\ ReportedSuccess(Unwrap(ret.obs.thread.cb))

\* The callback of thread t runs in this step.
CallbackFires(t) == mthreads[t].cb = None /\ mthreads'[t].cb # None

\* C35 (as stated): mount_drive returns Ok only after a callback that ran
\* before the thread left its loop and reported success; and a callback
\* that fires once the watchdog has quit the loop leaves the inner channel,
\* and with it the outcome, as it was.
C35_LateCallbackNeverCounts ==
    /\ []OkOnlyAfterSuccessfulCallback
    /\ [][\A t \in DOMAIN mthreads :
            /\ CallbackFires(t) => mthreads[t].pc = "in_loop"
            /\ (CallbackFires(t) /\ mthreads[t].wd = "done")
                  => mthreads'[t].inner = mthreads[t].inner]_vars

\* C35 (amended): mount_drive returns Ok only after a callback that ran
\* while the thread was in its loop and reported success; once the thread
\* has left its loop no callback runs and what it has sent stays; and when
\* the thread has left its loop on the watchdog's quit with no callback
\* having run, the call that receives its result returns 'Failed to mount:
\* Mount timed out'.  A callback that runs after the watchdog's quit and
\* before the loop returns still decides the outcome.
C35_CallbackCountsUntilLoopReturns ==
    /\ [](/\ OkOnlyAfterSuccessfulCallback
          /\ (MountReturned /\ ret.obs.thread.sent # None
                  /\ InnerExpired(ret.obs.thread))
                => ret.res = Err("GioError",
                                 << "Failed to mount: ", "Mount timed out" >>))
    /\ [][\A t \in DOMAIN mthreads :
            /\ CallbackFires(t) =>
                  /\ mthreads[t].pc = "in_loop"
                  /\ mthreads'[t].pc = "in_loop"
                  /\ mthreads'[t].inner
                        = Some(IF ReportedSuccess(Unwrap(mthreads'[t].cb))
                               THEN Ok(Unit)
                               ELSE Err("String", Unwrap(mthreads'[t].cb).msg))
            /\ mthreads[t].pc = "done" => mthreads'[t] = mthreads[t]]_vars

\* mount_drive has returned Ok for a completion Ok(()) that its thread sent
\* after the watchdog had stopped the loop.
C35_Witness ==
    /\ MountReturned
    /\ ret.res = Ok(Unit)
    /\ ret.obs.thread.cb = Some([kind |-> "Ok"])
    /\ ret.obs.thread.wd = "done"
    /\ ret.obs.thread.sent = Some(Ok(Unit))

\* ------------------------------------------------ claims on status:update
\* C36: a get_status call has emitted exactly one status:update event, the
\* default status, from its invocation on, which is before the worker's
\* `status --json` completes; it emits nothing more, so that the call
\* returns with that one event whatever status it returns.
C36_OneLoadingEventBeforeWorker ==
    /\ [](/\ \A c \in Callers :
                (calls[c].op = "get_status" /\ calls[c].pc # "idle")
                    => calls[c].upd = << default_status_response >>
          /\ ret.op = "get_status" => ret.upd = << default_status_response >>)
    /\ [][\A c \in Callers :
            calls'[c].upd # calls[c].upd =>
                calls[c].pc = "idle" \/ calls'[c].pc = "idle"]_vars

\* get_status has returned a parsed status that is not the default one, and
\* the one event it emitted is the default status.
C36_Witness ==
    /\ ret.op = "get_status"
    /\ ret.res.kind = "Ok"
    /\ ret.res.val # default_status_response
    /\ ret.res.val.running
    /\ ret.upd = << default_status_response >>

\* ------------------------------------------------ claims on the tracked pid
\* One caller that starts, stops, queries the status, mounts, unmounts and
\* checks the mount, one command after the other, while the workers exit,
\* their output tasks end, and the mount threads start; the event loop of
\* a mount thread is left to the specification of mount_drive.
NextAll ==
    \/ CallStart(1, None)
    \/ StartLock(1)
    \/ StartSpawn(1)
    \/ CallStop(1)
    \/ StopExit(1)
    \/ StopClear(1)
    \/ CallGetStatus(1)
    \/ CallMount(1)
    \/ CallUnmount(1)
    \/ CallCheckMount(1)
    \/ GsExit(1, {TimedOut, Exited(0, << "A" >>, << >>)})
    \/ GsBackfill(1)
    \/ MountCheck(1)
    \/ MountRecv(1)
    \/ MountTimeout(1)
    \/ UnmountRun(1)
    \/ CheckRun(1)
    \/ \E t \in DOMAIN mthreads : MountThreadStart(t)
    \/ Environment

SpecAll == Init /\ [][NextAll]_vars

PidReaders ==
    {"get_status", "mount_drive", "unmount_drive", "check_mount_status"}

\* C37: the tracked pid changes only in the start step of start_sidecar,
\* from None to the pid of the worker it has spawned, and in the clearing
\* step that follows a successful `stop`, to None; no step of get_status,
\* mount_drive, unmount_drive or check_mount_status, of an output task or of
\* a mount thread changes it.
C37_OnlyStartAndStopWritePid ==
    [][/\ pid' # pid =>
            \E c \in Callers :
                \/ /\ calls[c].op \in StartOps
                   /\ calls[c].pc = "start_spawn"
                   /\ pid = None
                   /\ pid' = Some(nextPid)
                   /\ nextPid \in alive' \ alive
                   /\ ret'.res.kind = "Ok"
                \/ /\ calls[c].pc = "stop_clear"
                   /\ Success(calls[c].out)
                   /\ calls'[c] # calls[c]
                   /\ pid' = None
       /\ (\E c \in Callers :
              calls[c].op \in PidReaders /\ calls'[c] # calls[c]) => pid' = pid
       /\ (\E w \in DOMAIN streams : streams'[w].got # streams[w].got)
            => pid' = pid
       /\ (\E t \in DOMAIN mthreads : mthreads'[t] # mthreads[t])
            => pid' = pid]_vars

\* get_status has returned the tracked pid in a status whose document had
\* none, after the output task of an earlier worker has ended, and the pid
\* is tracked as before.
C37_Witness ==
    /\ ret.op = "get_status"
    /\ ret.res.kind = "Ok"
    /\ pid = Some(2)
    /\ ret.res.val.pid = Some(2)
    /\ streams[1].got # << >>

====
